---------------------------- MODULE Spec2Model ----------------------------
(***************************************************************************)
(* Model of static/flight.js: the flight loop of the ring game.            *)
(*                                                                         *)
(* Units.  plane.position.z is kept as the IEEE-754 double the script      *)
(* computes (a sign and a 63-bit magnitude in units of 2^-52 ft, held in   *)
(* three limbs of 21 bits), because the rounding of `z -= speed` decides   *)
(* in which frame `plane.position.z < ring.position.z` first holds.        *)
(* Vertical quantities (plane.position.y, pitch, ring altitude, the ring   *)
(* radii) are exact decimals in units of 1/20 ft; the stick axes[3] is     *)
(* read in half deflections (2 stands for 1.0).  Ring forward              *)
(* coordinates are whole feet.                                             *)
(***************************************************************************)
EXTENDS Integers, Sequences, FiniteSets, TLC

(* ------------------------------ bounds -------------------------------- *)
\* frames animated per flight (since page load or the last restart)
MaxTicks == 124
\* largest stick deflection offered, in half deflections
MaxAxis == 1
\* largest number of requestAnimationFrame callbacks outstanding
MaxPending == 2
\* key and gamepad events other than the space key are offered during the
\* first EventTicks frames of a flight and once the flight has crashed
EventTicks == 2
\* frames animated per flight in the two-run comparison
TwinTicks == 3
\* frames animated per flight in the flight through the whole ring field
FlightTicks == 935
\* in that flight the stick is back at rest after the first SteerTicks frames
SteerTicks == 30
\* rings whose checked flag is drawn freely when checkRings is run on its own
ScanRings == 4

(* ------------------------- IEEE-754 doubles --------------------------- *)
Limb == 2^21
Zero3 == <<0, 0, 0>>

\* propagate carries and borrows between the limbs
Norm(h, m, l) ==
  LET m1 == m + (l \div Limb)
  IN  <<h + (m1 \div Limb), m1 % Limb, l % Limb>>

MagAdd(a, b) == Norm(a[1] + b[1], a[2] + b[2], a[3] + b[3])
\* a - b for a >= b
MagSub(a, b) == Norm(a[1] - b[1], a[2] - b[2], a[3] - b[3])
MagLess(a, b) ==
  \/ a[1] < b[1]
  \/ a[1] = b[1] /\ a[2] < b[2]
  \/ a[1] = b[1] /\ a[2] = b[2] /\ a[3] < b[3]

RECURSIVE ILog2(_)
ILog2(n) == IF n < 2 THEN 0 ELSE 1 + ILog2(n \div 2)

\* round a magnitude to 53 significant bits, ties to even
Round53(a) ==
  IF a[1] < 2^11 THEN a
  ELSE LET q    == 2^(ILog2(a[1]) - 10)
           r    == a[3] % q
           keep == a[3] - r
           up   == r * 2 > q \/ (r * 2 = q /\ (keep \div q) % 2 = 1)
       IN  IF up THEN Norm(a[1], a[2], keep + q) ELSE <<a[1], a[2], keep>>

\* the double of a whole number of feet
FromInt(n) == [neg |-> n < 0, m |-> <<(IF n < 0 THEN -n ELSE n) * 2^10, 0, 0>>]

\* a / b for whole a, b with 1 <= a/b < 2, rounded to nearest
FDivInt(a, b) ==
  LET h  == a * 2^10
      r1 == h % b
      r2 == (r1 * Limb) % b
      r3 == (r2 * Limb) % b
      l  == (r2 * Limb) \div b
  IN  [neg |-> FALSE,
       m   |-> Norm(h \div b, (r1 * Limb) \div b,
                    IF r3 * 2 >= b THEN l + 1 ELSE l)]

\* a - b in double arithmetic, b >= 0
FSub(a, b) ==
  IF a.neg THEN [neg |-> TRUE, m |-> Round53(MagAdd(a.m, b.m))]
  ELSE IF MagLess(a.m, b.m)
       THEN [neg |-> TRUE, m |-> Round53(MagSub(b.m, a.m))]
       ELSE [neg |-> FALSE, m |-> Round53(MagSub(a.m, b.m))]

\* a < b on doubles
FLess(a, b) ==
  IF a.neg /\ b.neg THEN MagLess(b.m, a.m)
  ELSE IF a.neg THEN a.m # Zero3 \/ b.m # Zero3
  ELSE IF b.neg THEN FALSE
  ELSE MagLess(a.m, b.m)

(* ------------------------- program constants -------------------------- *)
numRings == 10
ringSpacing == 150
ringMajorRadius == 160
ringTubeRadius == 14
innerRadius == ringMajorRadius - ringTubeRadius
outerRadius == ringMajorRadius + ringTubeRadius
level1Altitude == 0
level2Altitude == 120
speed == FDivInt(100, 60)
\* pitch = axes[3] * 0.2: a half deflection is 0.1 ft = 2 units
Sensitivity == 2

\* gamepadIndex === null
Null == -1
GamepadIndexes == {0}
\* navigator.getGamepads()[gamepadIndex] gave no gamepad
NoPad == 99
\* the stick at rest or pushed forward
Axes == 0..MaxAxis
PadReadings == Axes \cup {NoPad}

RingIds == 0..(numRings - 1)

\* plane.position.set(0, 0, 500)
StartPosition == [x |-> 0, y |-> 0, z |-> FromInt(500)]

\* the ring creation loop with the two altitudes the other way round
InitialRings_altitudesSwapped ==
  [i \in RingIds |->
     [x |-> 0,
      y |-> IF i % 2 = 0 THEN level2Altitude ELSE level1Altitude,
      z |-> (-i) * ringSpacing + 300,
      checked |-> FALSE]]

\* the ring creation loop
InitialRings ==
  [i \in RingIds |->
     [x |-> 0,
      y |-> IF i % 2 = 0 THEN level1Altitude ELSE level2Altitude,
      z |-> (-i) * ringSpacing + 300,
      checked |-> FALSE]]

(* --------------------------- program state ---------------------------- *)
VARIABLES
  gameStarted, crashed, score, pitch, gamepadIndex,
  plane,      \* plane.position
  rings,      \* rings[i].position and rings[i].checked
  pending,    \* animate callbacks handed to requestAnimationFrame, not yet run
  ticks,      \* history: frames animated since page load or the last restart
  judged,     \* history: per ring, the outcomes checkRings gave it since then
  last,       \* history: the event handled last
  twin        \* the second run of the two-run comparison

vars == <<gameStarted, crashed, score, pitch, gamepadIndex, plane, rings,
          pending, ticks, judged, last, twin>>

\* the script's state as one value
Game ==
  [gameStarted |-> gameStarted, crashed |-> crashed, score |-> score,
   pitch |-> pitch, gamepadIndex |-> gamepadIndex, plane |-> plane,
   rings |-> rings, pending |-> pending, ticks |-> ticks, judged |-> judged]

\* the state once the script has been loaded
Loaded ==
  [gameStarted |-> FALSE, crashed |-> FALSE, score |-> 0,
   pitch |-> 0, gamepadIndex |-> Null, plane |-> StartPosition,
   rings |-> InitialRings, pending |-> 0, ticks |-> 0,
   judged |-> [i \in RingIds |-> <<>>]]

(* ----------------------------- functions ------------------------------ *)
updateGamepadInput(g, pad) ==
  IF g.gamepadIndex = Null \/ g.crashed THEN g
  ELSE IF pad = NoPad THEN g
  ELSE [g EXCEPT !.pitch = pad * Sensitivity]

\* checkRings with `distance <= innerRadius` as the test of a clean pass
Outcome_innerInclusive(d2) ==
  IF d2 <= innerRadius * innerRadius THEN "Scored"
  ELSE IF d2 >= innerRadius * innerRadius /\ d2 <= outerRadius * outerRadius
       THEN "Crashed"
       ELSE "Missed"

\* the three branches of checkRings on the squared planar distance
Outcome(d2) ==
  IF d2 < innerRadius * innerRadius THEN "Scored"
  ELSE IF d2 >= innerRadius * innerRadius /\ d2 <= outerRadius * outerRadius
       THEN "Crashed"
       ELSE "Missed"

\* the test without `!ring.checked`
due_ignoresChecked(g, i) == FLess(g.plane.z, FromInt(g.rings[i].z))

\* the test without the comparison of the forward coordinates
due_ignoresPosition(g, i) == ~g.rings[i].checked

\* the test that selects ring i for processing
due(g, i) ==
  ~g.rings[i].checked /\ FLess(g.plane.z, FromInt(g.rings[i].z))

\* the successful pass with `score -= 1`
passed_decrements(g) == [g EXCEPT !.score = @ - 1]

\* the successful pass
passed(g) == [g EXCEPT !.score = @ + 1]

\* the collision counted as a pass as well
collided_scores(g) == [g EXCEPT !.crashed = TRUE, !.score = @ + 1]

\* the collision ending the game with `gameStarted = false`
collided_stopsGame(g) == [g EXCEPT !.crashed = TRUE, !.gameStarted = FALSE]

\* the collision
collided(g) == [g EXCEPT !.crashed = TRUE]

\* the body of the loop of checkRings from index i on
RECURSIVE checkRingsFrom(_, _)
checkRingsFrom(g, i) ==
  IF i >= numRings THEN g
  ELSE IF due(g, i)
       THEN LET ring == g.rings[i]
                dx   == g.plane.x - ring.x
                dy   == g.plane.y - ring.y
                out  == Outcome(dx * dx + dy * dy)
                g1   == [g EXCEPT !.rings[i].checked = TRUE,
                                  !.judged[i] = Append(@, out)]
            IN  IF out = "Scored" THEN checkRingsFrom(passed(g1), i + 1)
                ELSE IF out = "Crashed" THEN collided(g1)
                ELSE checkRingsFrom(g1, i + 1)
       ELSE checkRingsFrom(g, i + 1)

\* the loop without the `return` of the collision branch
RECURSIVE checkRingsFrom_noReturn(_, _)
checkRingsFrom_noReturn(g, i) ==
  IF i >= numRings THEN g
  ELSE IF due(g, i)
       THEN LET ring == g.rings[i]
                dx   == g.plane.x - ring.x
                dy   == g.plane.y - ring.y
                out  == Outcome(dx * dx + dy * dy)
                g1   == [g EXCEPT !.rings[i].checked = TRUE,
                                  !.judged[i] = Append(@, out)]
            IN  IF out = "Scored"
                THEN checkRingsFrom_noReturn(passed(g1), i + 1)
                ELSE IF out = "Crashed"
                     THEN checkRingsFrom_noReturn(collided(g1), i + 1)
                     ELSE checkRingsFrom_noReturn(g1, i + 1)
       ELSE checkRingsFrom_noReturn(g, i + 1)

checkRings_noReturn(g) == checkRingsFrom_noReturn(g, 0)

checkRings(g) == checkRingsFrom(g, 0)

\* animate with `if (!gameStarted) return;`
animate_ignoresCrash(g, pad) ==
  IF ~g.gameStarted THEN g
  ELSE LET g1 == [g EXCEPT !.pending = @ + 1]
           g2 == updateGamepadInput(g1, pad)
           g3 == [g2 EXCEPT !.plane.z = FSub(@, speed),
                            !.plane.y = @ - g2.pitch,
                            !.ticks = @ + 1]
       IN  checkRings(g3)

\* animate without `requestAnimationFrame(animate)`
animate_noRequest(g, pad) ==
  IF ~g.gameStarted \/ g.crashed THEN g
  ELSE LET g2 == updateGamepadInput(g, pad)
           g3 == [g2 EXCEPT !.plane.z = FSub(@, speed),
                            !.plane.y = @ - g2.pitch,
                            !.ticks = @ + 1]
       IN  checkRings(g3)

animate(g, pad) ==
  IF ~g.gameStarted \/ g.crashed THEN g
  ELSE LET g1 == [g EXCEPT !.pending = @ + 1]
           g2 == updateGamepadInput(g1, pad)
           g3 == [g2 EXCEPT !.plane.z = FSub(@, speed),
                            !.plane.y = @ - g2.pitch,
                            !.ticks = @ + 1]
       IN  checkRings(g3)

startGame(g, pad) ==
  IF ~g.gameStarted
  THEN animate([g EXCEPT !.gameStarted = TRUE], pad)
  ELSE g

\* restartGame without `score = 0`
restartGame_keepsScore(g) ==
  [g EXCEPT !.plane = StartPosition,
            !.crashed = FALSE,
            !.gameStarted = FALSE,
            !.rings = [i \in RingIds |-> [g.rings[i] EXCEPT !.checked = FALSE]],
            !.ticks = 0,
            !.judged = [i \in RingIds |-> <<>>]]

\* restartGame without `crashed = false`
restartGame_keepsCrashed(g) ==
  [g EXCEPT !.plane = StartPosition,
            !.gameStarted = FALSE,
            !.score = 0,
            !.rings = [i \in RingIds |-> [g.rings[i] EXCEPT !.checked = FALSE]],
            !.ticks = 0,
            !.judged = [i \in RingIds |-> <<>>]]

\* restartGame without the loop that clears the checked flags
restartGame_keepsChecks(g) ==
  [g EXCEPT !.plane = StartPosition,
            !.crashed = FALSE,
            !.gameStarted = FALSE,
            !.score = 0,
            !.ticks = 0,
            !.judged = [i \in RingIds |-> <<>>]]

restartGame(g) ==
  [g EXCEPT !.plane = StartPosition,
            !.crashed = FALSE,
            !.gameStarted = FALSE,
            !.score = 0,
            !.rings = [i \in RingIds |-> [g.rings[i] EXCEPT !.checked = FALSE]],
            !.ticks = 0,
            !.judged = [i \in RingIds |-> <<>>]]

(* ------------------------------ handlers ------------------------------ *)
\* the listener starting the loop on any other key, whatever the state
keydown_alwaysStarts(g, space, pad) ==
  IF space THEN restartGame(g)
  ELSE animate([g EXCEPT !.gameStarted = TRUE], pad)

keydown(g, space, pad) ==
  IF space THEN restartGame(g)
  ELSE IF ~g.gameStarted /\ ~g.crashed THEN startGame(g, pad)
  ELSE g

gamepadconnected(g, index, pad) ==
  LET g1 == [g EXCEPT !.gamepadIndex = index]
  IN  IF ~g1.gameStarted /\ ~g1.crashed THEN startGame(g1, pad) ELSE g1

gamepaddisconnected(g) == [g EXCEPT !.gamepadIndex = Null]

\* the browser runs one callback handed to requestAnimationFrame
frame(g, pad) == animate([g EXCEPT !.pending = @ - 1], pad)

(* ------------------------------ actions ------------------------------- *)
Becomes(g) ==
  /\ gameStarted' = g.gameStarted
  /\ crashed' = g.crashed
  /\ score' = g.score
  /\ pitch' = g.pitch
  /\ gamepadIndex' = g.gamepadIndex
  /\ plane' = g.plane
  /\ rings' = g.rings
  /\ pending' = g.pending
  /\ ticks' = g.ticks
  /\ judged' = g.judged

Init ==
  /\ gameStarted = Loaded.gameStarted
  /\ crashed = Loaded.crashed
  /\ score = Loaded.score
  /\ pitch = Loaded.pitch
  /\ gamepadIndex = Loaded.gamepadIndex
  /\ plane = Loaded.plane
  /\ rings = Loaded.rings
  /\ pending = Loaded.pending
  /\ ticks = Loaded.ticks
  /\ judged = Loaded.judged
  /\ last = [event |-> "load", from |-> "Idle"]
  /\ twin = Loaded

\* the lifecycle state the two flags encode
LifeState(started, hasCrashed) ==
  IF ~started /\ ~hasCrashed THEN "Idle"
  ELSE IF started /\ ~hasCrashed THEN "Running"
  ELSE IF started /\ hasCrashed THEN "Crashed"
  ELSE "Invalid"

State == LifeState(gameStarted, crashed)

Handled(e) == last' = [event |-> e, from |-> State]

\* a start request would be accepted and there is room to model its frame
CanStart(g) == ~g.gameStarted /\ ~g.crashed => g.pending < MaxPending

\* the window in which key and gamepad events are offered
Offered(g) == g.ticks <= EventTicks \/ g.crashed

\* what navigator.getGamepads()[gamepadIndex] can give when it is read
Readings(index) == IF index = Null THEN {NoPad} ELSE PadReadings

KeydownSpace ==
  /\ Becomes(keydown(Game, TRUE, NoPad))
  /\ Handled("restart")
  /\ UNCHANGED twin

KeydownOther ==
  /\ Offered(Game)
  /\ CanStart(Game)
  /\ \E pad \in Readings(gamepadIndex) : Becomes(keydown(Game, FALSE, pad))
  /\ Handled("keydown")
  /\ UNCHANGED twin

GamepadConnected ==
  /\ Offered(Game)
  /\ gamepadIndex = Null
  /\ CanStart(Game)
  /\ \E index \in GamepadIndexes, pad \in PadReadings :
       Becomes(gamepadconnected(Game, index, pad))
  /\ Handled("gamepadconnected")
  /\ UNCHANGED twin

GamepadDisconnected ==
  /\ Offered(Game)
  /\ gamepadIndex # Null
  /\ Becomes(gamepaddisconnected(Game))
  /\ Handled("gamepaddisconnected")
  /\ UNCHANGED twin

Frame ==
  /\ pending > 0
  /\ gameStarted /\ ~crashed => ticks < MaxTicks
  /\ \E pad \in Readings(gamepadIndex) : Becomes(frame(Game, pad))
  /\ Handled("frame")
  /\ UNCHANGED twin

Next ==
  \/ KeydownSpace
  \/ KeydownOther
  \/ GamepadConnected
  \/ GamepadDisconnected
  \/ Frame

Spec == Init /\ [][Next]_vars

(* ------------------------ two runs side by side ----------------------- *)
\* A second run of the same script: it was loaded, saw the gamepad events
\* that lead to the same gamepadIndex with the stick at rest, and was
\* restarted when the first run was.  From then on both runs get the same
\* events and the same gamepad readings.
freshlyRestarted(g) ==
  [restartGame(Loaded) EXCEPT !.gamepadIndex = g.gamepadIndex,
                              !.pending = g.pending]

TwinRoom(g) == g.gameStarted /\ ~g.crashed => g.ticks < TwinTicks

TwinKeydownSpace ==
  /\ Becomes(keydown(Game, TRUE, NoPad))
  /\ twin' = freshlyRestarted(Game)
  /\ Handled("restart")

TwinKeydownOther ==
  /\ CanStart(Game)
  /\ \E pad \in Readings(gamepadIndex) :
       /\ Becomes(keydown(Game, FALSE, pad))
       /\ twin' = keydown(twin, FALSE, pad)
  /\ Handled("keydown")

TwinGamepadConnected ==
  /\ CanStart(Game)
  /\ gamepadIndex = Null
  /\ \E index \in GamepadIndexes, pad \in PadReadings :
       /\ Becomes(gamepadconnected(Game, index, pad))
       /\ twin' = gamepadconnected(twin, index, pad)
  /\ Handled("gamepadconnected")

TwinGamepadDisconnected ==
  /\ gamepadIndex # Null
  /\ Becomes(gamepaddisconnected(Game))
  /\ twin' = gamepaddisconnected(twin)
  /\ Handled("gamepaddisconnected")

TwinFrame ==
  /\ pending > 0
  /\ TwinRoom(Game)
  /\ \E pad \in Readings(gamepadIndex) :
       /\ Becomes(frame(Game, pad))
       /\ twin' = frame(twin, pad)
  /\ Handled("frame")

TwinNext ==
  \/ TwinKeydownSpace
  \/ TwinKeydownOther
  \/ TwinGamepadConnected
  \/ TwinGamepadDisconnected
  \/ TwinFrame

SpecTwin == Init /\ [][TwinNext]_vars

(* ----------------- a flight through the whole ring field -------------- *)
\* The events are those of Spec without gamepaddisconnected; the gamepad,
\* once connected, is read at every frame, and its stick is at rest from
\* frame SteerTicks on, so that the craft keeps its altitude over the rings.
FlightReadings(g) ==
  IF g.gamepadIndex = Null THEN {NoPad}
  ELSE IF g.ticks < SteerTicks THEN Axes
  ELSE {0}

FlightFrame ==
  /\ pending > 0
  /\ gameStarted /\ ~crashed => ticks < FlightTicks
  /\ \E pad \in FlightReadings(Game) : Becomes(frame(Game, pad))
  /\ Handled("frame")
  /\ UNCHANGED twin

FlightNext ==
  \/ KeydownSpace
  \/ KeydownOther
  \/ GamepadConnected
  \/ FlightFrame

SpecFlight == Init /\ [][FlightNext]_vars

\* what every FlightFrame step shows, whatever the callback computes: it
\* takes a registered callback and records the frame; a step of FlightNext
\* satisfies this exactly when it is a FlightFrame step, and it is enabled
\* exactly when FlightFrame is
FrameDelivered ==
  /\ pending > 0
  /\ gameStarted /\ ~crashed => ticks < FlightTicks
  /\ pending' \in {pending - 1, pending}
  /\ ticks' \in {ticks, ticks + 1}
  /\ last' = [event |-> "frame", from |-> State]

\* the browser runs every callback handed to requestAnimationFrame
SpecFlightFair == SpecFlight /\ WF_<<pending, ticks, last>>(FrameDelivered)

(* ------------------------ checkRings on its own ----------------------- *)
\* checkRings as a function of the craft position and the checked flags:
\* it is run once on a running game whose craft is at a whole number of
\* feet, in front of, between or past the first rings, at an altitude that
\* passes, hits or misses them, with any of the first rings already checked.
ScanForward == {301, 299, 149, -1, -151}

ScanAltitudes == {0, -40, -150, -180}

ScanInit ==
  /\ gameStarted = TRUE
  /\ crashed = FALSE
  /\ score = 0
  /\ pitch = 0
  /\ gamepadIndex = Null
  /\ \E z \in ScanForward, y \in ScanAltitudes :
       plane = [x |-> 0, y |-> y, z |-> FromInt(z)]
  /\ \E done \in SUBSET (0..(ScanRings - 1)) :
       rings = [i \in RingIds |->
                  [InitialRings[i] EXCEPT !.checked = i \in done]]
  /\ pending = 1
  /\ ticks = 0
  /\ judged = [i \in RingIds |-> <<>>]
  /\ last = [event |-> "load", from |-> "Running"]
  /\ twin = Loaded

Scan ==
  /\ last.event = "load"
  /\ Becomes(checkRings(Game))
  /\ Handled("scan")
  /\ UNCHANGED twin

ScanNext == Scan

SpecScan == ScanInit /\ [][ScanNext]_vars

(* ------------------------------ properties ---------------------------- *)
Abs(n) == IF n < 0 THEN -n ELSE n

AllUnchecked == \A i \in RingIds : ~rings[i].checked

ChecksUnchanged == \A i \in RingIds : rings'[i].checked = rings[i].checked

\* C1: when the space key has just been handled, whatever the state it was
\* pressed in, the game is Idle, the score is 0, no ring is checked and the
\* craft is at (0, 0, 500).
C1_RestartResets ==
  last.event = "restart" =>
    /\ ~gameStarted /\ ~crashed
    /\ score = 0
    /\ AllUnchecked
    /\ plane.x = 0 /\ plane.y = 0 /\ plane.z = FromInt(500)

\* the space key was pressed after a crash
C1_Witness == last = [event |-> "restart", from |-> "Crashed"]

\* C2: a non-space keydown or a gamepadconnected event handled while the
\* game is Running or Crashed changes neither the lifecycle flags, the score,
\* the craft position nor any checked flag, and leaves the number of
\* outstanding animate callbacks as it was.
C2_StartIgnored ==
  [][(/\ last'.event \in {"keydown", "gamepadconnected"}
      /\ last'.from \in {"Running", "Crashed"})
     => /\ UNCHANGED <<gameStarted, crashed, score, plane, pending>>
        /\ ChecksUnchanged]_vars

\* a key other than space was pressed during the flight
C2_Witness == last = [event |-> "keydown", from |-> "Running"]

\* C3: in a step that processes ring i, with d the planar distance between
\* craft and ring centre (x is the same for both, so d = |dy|): d < 7.3 ft
\* scores (score + 1, no crash), 7.3 <= d <= 8.7 crashes (score kept),
\* d > 8.7 misses (score kept, no crash); the ring gets exactly one outcome.
C3_Classification ==
  [][\A i \in RingIds :
       ~rings[i].checked /\ rings'[i].checked =>
         LET d == Abs(plane'.y - rings[i].y) IN
           /\ plane'.x = rings[i].x
           /\ Len(judged'[i]) = 1
           /\ d < 146 =>
                judged'[i] = <<"Scored">> /\ score' = score + 1 /\ ~crashed'
           /\ d >= 146 /\ d <= 174 =>
                judged'[i] = <<"Crashed">> /\ score' = score /\ crashed'
           /\ d > 174 =>
                judged'[i] = <<"Missed">> /\ score' = score /\ ~crashed']_vars

\* ring 0 was crossed at exactly the inner radius and the craft crashed
C3_Witness ==
  /\ rings[0].checked
  /\ Abs(plane.y - rings[0].y) = 146
  /\ crashed

\* C4: in every step other than a restart the score changes only if the
\* game was Running and then it grows; it does not change once crashed; a
\* step that lowers the score is a restart and sets it to 0.
C4_ScoreMonotone ==
  [][/\ last'.event # "restart" =>
          /\ score' # score => gameStarted /\ ~crashed /\ score' > score
          /\ crashed => score' = score
     /\ score' < score => last'.event = "restart" /\ score' = 0]_vars

\* a frame of a running flight has raised the score
C4_Witness ==
  /\ score = 1
  /\ last = [event |-> "frame", from |-> "Running"]
  /\ judged[0] = <<"Scored">>

\* C5: a checked flag goes back to false only in a restart step; since the
\* last restart each ring has been evaluated at most once, and an
\* evaluation is a step that turns the ring's flag from false to true.
C5_CheckedOnce ==
  [][\A i \in RingIds :
       /\ rings[i].checked /\ ~rings'[i].checked => last'.event = "restart"
       /\ Len(judged'[i]) <= 1
       /\ Len(judged'[i]) > Len(judged[i]) =>
            ~rings[i].checked /\ rings'[i].checked]_vars

\* ring 0 was evaluated and a later frame of the same flight has run
C5_Witness ==
  /\ rings[0].checked
  /\ Len(judged[0]) = 1
  /\ ~crashed
  /\ ticks >= 122

\* C6: the lifecycle state changes only from Idle to Running in a start
\* request, from Running to Crashed in a frame that judged a ring Crashed,
\* and to Idle in a restart.
C6_Transitions ==
  [][LifeState(gameStarted', crashed') # State =>
       \/ /\ State = "Idle"
          /\ LifeState(gameStarted', crashed') = "Running"
          /\ last'.event \in {"keydown", "gamepadconnected"}
       \/ /\ State = "Running"
          /\ LifeState(gameStarted', crashed') = "Crashed"
          /\ last'.event = "frame"
          /\ \E i \in RingIds :
               Len(judged'[i]) = Len(judged[i]) + 1 /\
               judged'[i][Len(judged'[i])] = "Crashed"
       \/ /\ LifeState(gameStarted', crashed') = "Idle"
          /\ last'.event = "restart"]_vars

\* a crashed flight was restarted
C6_Witness ==
  /\ last = [event |-> "restart", from |-> "Crashed"]
  /\ State = "Idle"
  /\ pending = 1

\* C7: an animate callback that runs while the game is not Running changes
\* neither the craft position, the score, the rings nor the lifecycle flags
\* and requests no further frame.
C7_IdleFrameNoOp ==
  [][last'.event = "frame" /\ last'.from # "Running" =>
       /\ UNCHANGED <<plane, score, rings, gameStarted, crashed>>
       /\ pending' = pending - 1]_vars

\* the callback left over by the crashing frame has run
C7_Witness == last = [event |-> "frame", from |-> "Crashed"] /\ pending = 0

\* C8: at most one animate callback is outstanding at any time.
C8_OneFramePending == pending <= 1

\* C9: a tick that runs while gamepadIndex is null leaves the craft's
\* vertical coordinate as it was.
C9_NoPadNoPitch ==
  [][ticks' = ticks + 1 /\ gamepadIndex' = Null => plane'.y = plane.y]_vars

\* C10: the run that has been restarted after an arbitrary history and the
\* run that was restarted right after loading, given the same events and
\* readings since, agree on craft position, score and lifecycle state.
C10_RunsAgree ==
  /\ twin.plane = plane
  /\ twin.score = score
  /\ twin.gameStarted = gameStarted
  /\ twin.crashed = crashed

\* the pitch sampled for the tick a step has run: the stick reading that
\* updateGamepadInput has stored, and 0 when there is no input device
SampledPitch == IF gamepadIndex' = Null THEN 0 ELSE pitch'

\* C11: a step that runs a tick takes the craft's z to z - speed (the
\* subtraction of the script, in double arithmetic) and its y to y minus the
\* pitch sampled for that tick, and keeps x; x is 0 in every state.
C11_TickMotion ==
  [][/\ plane.x = 0 /\ plane'.x = 0
     /\ ticks' = ticks + 1 =>
          /\ plane'.z = FSub(plane.z, speed)
          /\ plane'.y = plane.y - SampledPitch
          /\ plane'.x = plane.x]_vars

Scored == {i \in RingIds : judged[i] = <<"Scored">>}

Checked == {i \in RingIds : rings[i].checked}

\* C12: the score is the number of rings judged Scored since the last
\* restart; every judged ring, whatever its outcome, is checked; and
\* 0 <= score <= number of checked rings <= 10.
C12_ScoreCounts ==
  /\ score = Cardinality(Scored)
  /\ \A i \in RingIds :
       /\ Len(judged[i]) <= 1
       /\ rings[i].checked <=> Len(judged[i]) = 1
  /\ 0 <= score
  /\ score <= Cardinality(Checked)
  /\ Cardinality(Checked) <= 10

\* all ten rings are checked, five of them scored and one at least missed
C12_Witness ==
  /\ Cardinality(Checked) = 10
  /\ score = 5
  /\ \E i \in RingIds : judged[i] = <<"Missed">>

\* C13: there are exactly ten rings; ring i is centred at x = 0, z =
\* 300 - 150 i and altitude 0 ft (i even) or 6 ft (i odd) in every state, and
\* no ring is checked when the script has been loaded.
C13_RingField ==
  /\ DOMAIN rings = 0..9
  /\ \A i \in DOMAIN rings :
       /\ rings[i].x = 0
       /\ rings[i].z = 300 - 150 * i
       /\ rings[i].y = IF i % 2 = 0 THEN 0 ELSE 120
  /\ last.event = "load" => \A i \in DOMAIN rings : ~rings[i].checked

\* a running flight, steered down, was restarted with its frame pending
C13_Witness ==
  /\ last = [event |-> "restart", from |-> "Running"]
  /\ pending = 1
  /\ pitch = 2

\* the craft has flown past the plane of ring i
Behind(i) == FLess(plane.z, FromInt(rings[i].z))

\* C15: a checked ring lies strictly behind the craft (its z is greater than
\* the craft's); while the game is Idle or Running every ring strictly
\* behind the craft is checked; the checked rings are a prefix of the index
\* order.
C15_CheckedBehind ==
  /\ \A i \in RingIds : rings[i].checked => Behind(i)
  /\ ~crashed => \A i \in RingIds : Behind(i) => rings[i].checked
  /\ \A i, j \in RingIds : i < j /\ rings[j].checked => rings[i].checked

\* the craft is one frame short of the plane of ring 3, rings 0 to 2 checked
C15_Witness ==
  /\ ticks = 389
  /\ ~crashed
  /\ Checked = 0..2

\* the rings a step has evaluated
Evaluated == {i \in RingIds : Len(judged'[i]) > Len(judged[i])}

\* C16: no step evaluates more than one ring.
C16_OneRingPerTick == [][Cardinality(Evaluated) <= 1]_vars

\* the frame that crossed the plane of the last ring has evaluated it
C16_Witness ==
  /\ last = [event |-> "frame", from |-> "Running"]
  /\ ticks = 931
  /\ Len(judged[9]) = 1

\* C19: crashed implies gameStarted: the flags take only the combinations
\* Idle (false, false), Running (true, false) and Crashed (true, true).
C19_FlagsEncodeState ==
  /\ crashed => gameStarted
  /\ State \in {"Idle", "Running", "Crashed"}

\* a frame of a running flight has crashed the craft
C19_Witness ==
  /\ last = [event |-> "frame", from |-> "Running"]
  /\ crashed
  /\ gameStarted

\* the rings checkRings has to process: unchecked and behind the craft
Due == {i \in RingIds : ~rings[i].checked /\ Behind(i)}

\* those of them the craft hits: planar distance within 7.3 ft .. 8.7 ft
DueHit == {i \in Due : Abs(plane.y - rings[i].y) \in 146..174}

\* the index at which the scan ends
ScanEnd ==
  IF DueHit = {} THEN numRings
  ELSE CHOOSE i \in DueHit : \A j \in DueHit : i <= j

\* C14: one run of checkRings evaluates the due rings by increasing index up
\* to and including the first one judged Crashed: these become checked with
\* one outcome each, the score grows by the number of passes among them, the
\* game is crashed iff one was hit, and every other ring, in particular an
\* unchecked ring of higher index than the hit one, is left as it was.
C14_ScanOrder ==
  [][last'.event = "scan" =>
       /\ \A i \in RingIds :
            IF i \in Due /\ i <= ScanEnd
            THEN rings'[i].checked /\ Len(judged'[i]) = 1
            ELSE rings'[i] = rings[i] /\ judged'[i] = judged[i]
       /\ crashed' = (DueHit # {})
       /\ score' = score + Cardinality({i \in Due : /\ i < ScanEnd
                                                    /\ Abs(plane.y - rings[i].y) < 146})
       /\ plane' = plane]_vars

\* one run passed ring 0, hit ring 1 and left ring 2, also behind the
\* craft, unchecked
C14_Witness ==
  /\ last.event = "scan"
  /\ judged[0] = <<"Scored">>
  /\ judged[1] = <<"Crashed">>
  /\ crashed
  /\ ~rings[2].checked
  /\ Behind(2)

AllChecked == \A i \in RingIds : rings[i].checked

\* C17: with every requested frame delivered, a running flight leads to a
\* crash, to all ten rings checked, or to a restart; and in a running flight
\* with all rings checked every step but a restart leaves the game Running
\* and the score as it is.
C17_FlightEnds ==
  /\ (gameStarted /\ ~crashed) ~> (crashed \/ AllChecked \/ ~gameStarted)
  /\ [][AllChecked /\ gameStarted /\ ~crashed /\ last'.event # "restart" =>
          gameStarted' /\ ~crashed' /\ score' = score]_vars

\* the flight goes on, Running, four frames after the last ring
C17_Witness ==
  /\ AllChecked
  /\ gameStarted /\ ~crashed
  /\ score = 10
  /\ ticks = 935

\* C18: when a start request accepted in Idle has been handled the game is
\* Running, the craft is at z = 500 - speed and one animate callback is
\* outstanding.
C18_StartRunsFirstTick ==
  last.event \in {"keydown", "gamepadconnected"} /\ last.from = "Idle" =>
    /\ gameStarted /\ ~crashed
    /\ plane.z = FSub(FromInt(500), speed)
    /\ pending = 1

=============================================================================
